---- MODULE Spec2Model ----
(***************************************************************************)
(* Model of scan_nr_repair_tool.py: parse_scannr, read_spectra,            *)
(* repair_scan_numbers and main.                                           *)
(*                                                                         *)
(* A Python str is a sequence of tokens.  Every token is one character,    *)
(* except "scan", which stands for the four-letter run s-c-a-n: the code   *)
(* only ever looks for that run as a whole ("scan" in title, split on      *)
(* "scan="), and the run cannot overlap itself.                            *)
(***************************************************************************)
EXTENDS Integers, Sequences, FiniteSets, TLC

VARIABLES pc, params, pattern, i, scan_nr, spectra, mapping, fs, log

vars == <<pc, params, pattern, i, scan_nr, spectra, mapping, fs, log>>

(***************************************************************************)
(* Bounds of the model.                                                    *)
(***************************************************************************)
MaxTitleLen == 3
MaxSpectra == 2
MaxRows == 2

(***************************************************************************)
(* Python str and int primitives.                                          *)
(***************************************************************************)
Chars == {"scan", "=", "\"", "1", "2", ".", "-", " "}

Digits == {"1", "2"}

DigitVal(c) == IF c = "1" THEN 1 ELSE 2

RECURSIVE StrOfLen(_)
StrOfLen(n) ==
  IF n = 0 THEN {<<>>}
  ELSE {Append(s, c) : s \in StrOfLen(n - 1), c \in Chars}

RECURSIVE StrUpTo(_)
StrUpTo(n) == IF n = 0 THEN StrOfLen(0) ELSE StrOfLen(n) \cup StrUpTo(n - 1)

Max(S) == CHOOSE x \in S : \A y \in S : y <= x

Min(S) == CHOOSE x \in S : \A y \in S : x <= y

\* s.strip(chars): drop the leading and the trailing run of characters in chars
Strip(s, chars) ==
  LET keep == {k \in 1..Len(s) : s[k] \notin chars}
  IN IF keep = {} THEN <<>> ELSE SubSeq(s, Min(keep), Max(keep))

RECURSIVE DecimalValue(_)
DecimalValue(ds) ==
  IF Len(ds) = 0 THEN 0
  ELSE 10 * DecimalValue(SubSeq(ds, 1, Len(ds) - 1)) + DigitVal(ds[Len(ds)])

\* an outcome of a statement under try: a returned value or a raised exception
Return(v) == [kind |-> "return", exc |-> "none", val |-> v]

Raise(e) == [kind |-> "raise", exc |-> e, val |-> <<>>]

Pass == [kind |-> "pass", exc |-> "none", val |-> <<>>]

\* the value of an optional minus sign followed by digits, ValueError unless
\* there is at least one digit and nothing else
IntOfSigned(neg, ds) ==
  IF Len(ds) > 0 /\ \A k \in 1..Len(ds) : ds[k] \in Digits
  THEN Return(IF neg THEN 0 - DecimalValue(ds) ELSE DecimalValue(ds))
  ELSE Raise("ValueError")

IntOfStripped(t) ==
  IF Len(t) > 0 /\ t[1] = "-" THEN IntOfSigned(TRUE, Tail(t)) ELSE IntOfSigned(FALSE, t)

\* int(s) of a str: surrounding whitespace is ignored, one optional sign,
\* then at least one digit and nothing else; anything else is a ValueError
IntOfStr(s) == IntOfStripped(Strip(s, {" "}))

\* sub in s: the str sub occurs in s at index k
OccursAt(s, sub, k) ==
  /\ k >= 1
  /\ k + Len(sub) - 1 <= Len(s)
  /\ SubSeq(s, k, k + Len(sub) - 1) = sub

In(sub, s) == \E k \in 1..Len(s) : OccursAt(s, sub, k)

\* s.split(sep): the pieces of s between the occurrences of sep, left to right
RECURSIVE SplitAt(_, _, _)
SplitAt(s, sep, at) ==
  IF at = {} THEN <<s>>
  ELSE <<SubSeq(s, 1, Min(at) - 1)>>
       \o SplitAt(SubSeq(s, Min(at) + Len(sep), Len(s)), sep,
                  {k - (Min(at) + Len(sep) - 1) :
                     k \in {j \in at : j >= Min(at) + Len(sep)}})

Split(s, sep) == SplitAt(s, sep, {k \in 1..Len(s) : OccursAt(s, sep, k)})

\* seq[k] with Python's 0-based index: IndexError past the end
Item(seq, k) == IF k + 1 <= Len(seq) THEN Return(seq[k + 1]) ELSE Raise("IndexError")

(***************************************************************************)
(* re.findall and re.sub for the patterns the model supplies.              *)
(***************************************************************************)
DefaultPattern == "\\.\\d+\\."

Patterns == {DefaultPattern, "\\d+", "=", "(", "(\\d)\\d", "(\\d)(\\d)"}

\* the number of capture groups of a pattern
GroupCount(pat) ==
  IF pat = "(\\d)\\d" THEN 1 ELSE IF pat = "(\\d)(\\d)" THEN 2 ELSE 0

\* end of the run of digits of s that starts at k (k - 1 when there is none)
DigitRunEnd(s, k) ==
  Max({j \in (k - 1)..Len(s) : \A m \in k..j : s[m] \in Digits})

\* the last index of a match at index k whose digits end at e, 0 if none
DotDigitsDotEnd(s, k, e) ==
  IF s[k] = "." /\ e >= k + 1 /\ e + 1 <= Len(s) /\ s[e + 1] = "." THEN e + 1 ELSE 0

\* the last index of the match of pat that starts at index k of s, 0 if none
MatchEnd(pat, s, k) ==
  IF pat = DefaultPattern THEN DotDigitsDotEnd(s, k, DigitRunEnd(s, k + 1))
  ELSE IF pat = "\\d+" THEN Max({0, DigitRunEnd(s, k)})
  ELSE IF pat = "="
  THEN IF s[k] = "=" THEN k ELSE 0
  ELSE IF s[k] \in Digits /\ k + 1 <= Len(s) /\ s[k + 1] \in Digits
  THEN k + 1 ELSE 0

\* the matches of s from index k on, given the end e of a match at k
RECURSIVE MatchesFrom(_, _, _, _)
MatchesFrom(pat, s, k, e) ==
  IF k > Len(s) THEN <<>>
  ELSE IF e >= k
  THEN <<(<<k, e>>)>>
       \o MatchesFrom(pat, s, e + 1, IF e + 1 > Len(s) THEN 0 ELSE MatchEnd(pat, s, e + 1))
  ELSE MatchesFrom(pat, s, k + 1, IF k + 1 > Len(s) THEN 0 ELSE MatchEnd(pat, s, k + 1))

\* the spans <<first, last>> of the non-overlapping matches in s from index
\* k on, leftmost first
Matches(pat, s, k) ==
  MatchesFrom(pat, s, k, IF k > Len(s) THEN 0 ELSE MatchEnd(pat, s, k))

\* what re.findall lists for one match: the matched text for a pattern
\* without groups, the group's text for one group, a tuple for several
FoundItem(pat, s, span) ==
  IF GroupCount(pat) = 0
  THEN [type |-> "str", text |-> SubSeq(s, span[1], span[2])]
  ELSE IF GroupCount(pat) = 1
  THEN [type |-> "str", text |-> SubSeq(s, span[1], span[1])]
  ELSE [type |-> "tuple", text |-> <<>>]

FoundItems(pat, s, spans) == [k \in 1..Len(spans) |-> FoundItem(pat, s, spans[k])]

\* re.findall(pattern, s): re.error for a pattern that does not compile
FindAll(pat, s) ==
  IF pat = "(" THEN Raise("re.error") ELSE Return(FoundItems(pat, s, Matches(pat, s, 1)))

\* re.sub(r"[^0-9]", "", x): TypeError unless x is a str
SubNonDigits(x) ==
  IF x.type = "str" THEN Return(SelectSeq(x.text, LAMBDA c : c \in Digits))
  ELSE Raise("TypeError")

(***************************************************************************)
(* parse_scannr                                                            *)
(***************************************************************************)
\* params: the keys present and the value of each (<<>> for an absent key)
Params(keys, scans, title) == [keys |-> keys, scans |-> scans, title |-> title]

\* the first statement that returned or raised; a statement that passed
\* lets control fall through to the next one
OrElse(outcome, next) == IF outcome.kind # "pass" THEN outcome ELSE next

\* a try block without its except clause: the exception propagates
TryWithoutExcept(outcome) == outcome

\* except: pass -- an exception raised under try ends the try block only
Try(outcome) == IF outcome.kind = "raise" THEN Pass ELSE outcome

\* (0, n) of an int n; an exception in place of n propagates
ZeroWith(n) == IF n.kind = "return" THEN Return(<<0, n.val>>) ELSE n

\* return (0, int(x))
ReturnInt(x) == ZeroWith(IntOfStr(x))

\* return (0, int(params["scans"]))
ScansStep(p) == ReturnInt(p.scans)

\* return (0, int(piece.strip("\"")))
ReturnStrippedInt(piece) ==
  IF piece.kind = "return" THEN ReturnInt(Strip(piece.val, {"\""})) ELSE piece

\* return (0, int(params["title"].split("scan=")[1].strip("\"")))
ScanTokenStep(p) == ReturnStrippedInt(Item(Split(p.title, <<"scan", "=">>), 1))

\* found[0]
FirstItem(found) == IF found.kind = "return" THEN Item(found.val, 0) ELSE found

\* found[-1]
LastItem(found) ==
  IF found.kind = "return" THEN Item(found.val, Max({0, Len(found.val) - 1})) ELSE found

\* scan_nr = re.sub(r"[^0-9]", "", scan_nr)
DigitsOnly(item) == IF item.kind = "return" THEN SubNonDigits(item.val) ELSE item

\* if len(scan_nr) > 0: return (0, int(scan_nr))
ReturnIntIfAny(ds) ==
  IF ds.kind # "return" THEN ds
  ELSE IF Len(ds.val) > 0 THEN ReturnInt(ds.val) ELSE Pass

\* the pattern step taking the last match, re.findall(pattern, title)[-1]
PatternStepLastMatch(p, pat) ==
  ReturnIntIfAny(DigitsOnly(LastItem(FindAll(pat, p.title))))

\* scan_nr = re.findall(pattern, title)[0]; digits only; return if non-empty
PatternStep(p, pat) ==
  ReturnIntIfAny(DigitsOnly(FirstItem(FindAll(pat, p.title))))

\* return (0, int(params["title"]))
TitleStep(p) == ReturnInt(p.title)

\* parse_scannr trying the title before the scans field
ParseScannrTitleFirst(p, pat, fallback) ==
  OrElse(IF "title" \in p.keys /\ In(<<"scan">>, p.title)
         THEN Try(ScanTokenStep(p)) ELSE Pass,
  OrElse(IF "title" \in p.keys THEN Try(PatternStep(p, pat)) ELSE Pass,
  OrElse(IF "title" \in p.keys THEN Try(TitleStep(p)) ELSE Pass,
  OrElse(IF "scans" \in p.keys THEN Try(ScansStep(p)) ELSE Pass,
         Return(<<1, fallback>>)))))

ParseScannr(p, pat, fallback) ==
  OrElse(IF "scans" \in p.keys THEN Try(ScansStep(p)) ELSE Pass,
         IF "title" \in p.keys
         THEN OrElse(IF In(<<"scan">>, p.title) THEN Try(ScanTokenStep(p)) ELSE Pass,
              OrElse(Try(PatternStep(p, pat)),
              OrElse(Try(TitleStep(p)),
                     Return(<<1, fallback>>))))
         ELSE Return(<<1, fallback>>))

(***************************************************************************)
(* Specification of parse_scannr: one call on one metadata.                *)
(***************************************************************************)
\* titles longer than MaxTitleLen, among them the scan="N" titles
LongTitles ==
  { <<"scan", "=", "\"", "1", "\"">>,
    <<"scan", "=", "\"", "1", "\"", ".">>,
    <<".", "2", ".", "scan", "=", "\"", "1", "\"">>,
    <<".", "2", ".", "scan", "=", "\"", "1", "\"", ".">>,
    <<"scan", "=", "1", "scan", "=", "2">>,
    <<"-", ".", "1", "2", ".", "2", ".">>,
    <<".", "1", ".", ".", "2", ".">>,
    <<" ", "-", "1", "2", " ">> }

Titles == StrUpTo(MaxTitleLen) \cup LongTitles

ScansValues ==
  { <<>>, <<"1">>, <<"2">>, <<"-", "1">>, <<" ", "1", "2">>, <<".">>,
    <<"1", ".">>, <<"scan">> }

ParamsValues ==
  {Params({}, <<>>, <<>>)}
  \cup {Params({"scans"}, s, <<>>) : s \in ScansValues}
  \cup {Params({"title"}, <<>>, t) : t \in Titles}
  \cup {Params({"scans", "title"}, s, t) : s \in ScansValues, t \in Titles}

Fallbacks == {0 - 1, 7}

NoMapping == [raised |-> "none", result_dict |-> <<>>, exit_code |-> 0]

InitParse ==
  /\ pc = "call"
  /\ params \in ParamsValues
  /\ pattern \in Patterns
  /\ i \in Fallbacks
  /\ scan_nr = Pass
  /\ spectra = <<>>
  /\ mapping = NoMapping
  /\ fs = <<>>
  /\ log = <<>>

parse_scannr ==
  /\ pc = "call"
  /\ scan_nr' = ParseScannr(params, pattern, i)
  /\ pc' = "done"
  /\ UNCHANGED <<params, pattern, i, spectra, mapping, fs, log>>

NextParse == parse_scannr

SpecParse == InitParse /\ [][NextParse]_vars

(***************************************************************************)
(* Properties of parse_scannr.                                             *)
(***************************************************************************)
ScansParses(p) == "scans" \in p.keys /\ IntOfStr(p.scans).kind = "return"

\* C3: when the scans field parses as an integer, parse_scannr returns
\* (0, that integer), whatever the title, the pattern and the fallback are.
C3_ScansFieldWins ==
  (pc = "done" /\ ScansParses(params))
    => scan_nr = Return(<<0, IntOfStr(params.scans).val>>)

\* a call where the title alone would have given another number
C3_Witness ==
  /\ pc = "done"
  /\ ScansParses(params)
  /\ "title" \in params.keys
  /\ IntOfStr(params.title).kind = "return"
  /\ IntOfStr(params.title).val # IntOfStr(params.scans).val
  /\ scan_nr = Return(<<0, IntOfStr(params.scans).val>>)

\* an integer literal: an optional minus sign and at least one digit
IsIntLiteral(s) ==
  LET ds == IF Len(s) > 0 /\ s[1] = "-" THEN Tail(s) ELSE s
  IN Len(ds) > 0 /\ \A k \in 1..Len(ds) : ds[k] \in Digits

\* the integers N for which the text scan="N" occurs somewhere in title
QuotedScanTokens(title) ==
  { IntOfStr(SubSeq(title, k + 3, e)).val :
      <<k, e>> \in { ke \in (1..Len(title)) \X (1..Len(title)) :
                       /\ OccursAt(title, <<"scan", "=", "\"">>, ke[1])
                       /\ ke[2] >= ke[1] + 3
                       /\ ke[2] + 1 <= Len(title)
                       /\ title[ke[2] + 1] = "\""
                       /\ IsIntLiteral(SubSeq(title, ke[1] + 3, ke[2])) } }

\* C4: without a parseable scans field, a title that contains scan="N"
\* anywhere (text may follow the closing quote) gives (0, N).
C4_QuotedScanToken ==
  (pc = "done" /\ ~ScansParses(params) /\ "title" \in params.keys
     /\ QuotedScanTokens(params.title) # {})
    => \E n \in QuotedScanTokens(params.title) : scan_nr = Return(<<0, n>>)

\* the outcomes of the four steps in their fixed order, "pass" for a step
\* that does not apply; an exception is an outcome of kind "raise"
StepOutcomes(p, pat) ==
  << IF "scans" \in p.keys THEN ScansStep(p) ELSE Pass,
     IF "title" \in p.keys /\ In(<<"scan">>, p.title) THEN ScanTokenStep(p) ELSE Pass,
     IF "title" \in p.keys THEN PatternStep(p, pat) ELSE Pass,
     IF "title" \in p.keys THEN TitleStep(p) ELSE Pass >>

Yielding(p, pat) == {k \in 1..4 : StepOutcomes(p, pat)[k].kind = "return"}

\* C9: parse_scannr never raises; the first step that yields an integer, in
\* the order scans field, scan= token, pattern match, whole title, gives the
\* result; the result is (1, fallback) exactly when no step yields one.
C9_OrderedFallback ==
  pc = "done" =>
    /\ scan_nr.kind = "return"
    /\ Yielding(params, pattern) # {}
         => scan_nr = StepOutcomes(params, pattern)[Min(Yielding(params, pattern))]
    /\ (scan_nr = Return(<<1, i>>)) <=> (Yielding(params, pattern) = {})

\* the scans field and the scan= token both raise, the pattern step succeeds
C9_Witness ==
  /\ pc = "done"
  /\ StepOutcomes(params, pattern)[1].kind = "raise"
  /\ StepOutcomes(params, pattern)[2].kind = "raise"
  /\ StepOutcomes(params, pattern)[3].kind = "return"
  /\ StepOutcomes(params, pattern)[4].kind = "raise"
  /\ scan_nr = StepOutcomes(params, pattern)[3]

\* the text of the matches of the pattern in the title, leftmost first
\* (none if the pattern does not compile)
MatchTexts(title, pat) ==
  IF pat = "(" THEN <<>>
  ELSE LET spans == Matches(pat, title, 1)
       IN [k \in 1..Len(spans) |-> SubSeq(title, spans[k][1], spans[k][2])]

HasDigit(s) == \E k \in 1..Len(s) : s[k] \in Digits

DigitsOf(s) == SelectSeq(s, LAMBDA c : c \in Digits)

NoScansNoToken(p, pat) ==
  /\ ~ScansParses(p)
  /\ "title" \in p.keys
  /\ StepOutcomes(p, pat)[2].kind # "return"

\* C10 as stated: with no parseable scans field and no parseable scan=
\* token, a title the pattern matches gives (0, the digits of the first
\* match) when that match holds a digit; later matches are ignored.
C10_FirstMatchText ==
  (pc = "done" /\ NoScansNoToken(params, pattern)
     /\ Len(MatchTexts(params.title, pattern)) > 0
     /\ HasDigit(MatchTexts(params.title, pattern)[1]))
    => scan_nr = Return(<<0, DecimalValue(DigitsOf(MatchTexts(params.title, pattern)[1]))>>)

\* the first item of re.findall(pattern, title), when it is a str
FirstFoundStr(title, pat) ==
  LET found == FindAll(pat, title)
  IN IF found.kind = "return" /\ Len(found.val) > 0 /\ found.val[1].type = "str"
     THEN <<found.val[1].text>> ELSE <<>>

\* C10 amended: ... when the first item of re.findall(pattern, title) is a
\* str that holds a digit (the first match for a pattern without capture
\* groups, the group's text for a pattern with one group), the result is
\* (0, the digits of that item); later matches are ignored.
C10_FirstFoundItem ==
  (pc = "done" /\ NoScansNoToken(params, pattern)
     /\ Len(FirstFoundStr(params.title, pattern)) > 0
     /\ HasDigit(FirstFoundStr(params.title, pattern)[1]))
    => scan_nr = Return(<<0, DecimalValue(DigitsOf(FirstFoundStr(params.title, pattern)[1]))>>)

\* a title with two matches of different digits, the first one returned
C10_Witness ==
  /\ pc = "done"
  /\ NoScansNoToken(params, pattern)
  /\ Len(FirstFoundStr(params.title, pattern)) > 0
  /\ HasDigit(FirstFoundStr(params.title, pattern)[1])
  /\ Len(MatchTexts(params.title, pattern)) > 1
  /\ DigitsOf(MatchTexts(params.title, pattern)[2])
       # DigitsOf(FirstFoundStr(params.title, pattern)[1])
  /\ scan_nr = Return(<<0, DecimalValue(DigitsOf(FirstFoundStr(params.title, pattern)[1]))>>)

(***************************************************************************)
(* read_spectra                                                            *)
(***************************************************************************)
\* result_dict[key] = value
SetItem(d, key, value) ==
  [k \in DOMAIN d \cup {key} |-> IF k = key THEN value ELSE d[k]]

\* exit_code += scan_nr[0]; result_dict[s + 1] = scan_nr[1]
Count(acc, s, parsed) ==
  IF parsed.kind # "return" THEN [acc EXCEPT !.raised = parsed.exc]
  ELSE [raised |-> "none",
        result_dict |-> SetItem(acc.result_dict, s + 1, parsed.val[2]),
        exit_code |-> acc.exit_code + parsed.val[1]]

\* the for loop over enumerate(reader), from 0-based position s on
RECURSIVE ReadLoop(_, _, _, _)
ReadLoop(reader, pat, s, acc) ==
  IF s >= Len(reader) \/ acc.raised # "none" THEN acc
  ELSE ReadLoop(reader, pat, s + 1,
                Count(acc, s, ParseScannr(reader[s + 1], pat, 0 - (s + 1))))

\* print(f"... {s + 1} ..."): the loop variable s is unbound after a loop
\* over no spectrum
PrintFinished(reader, acc) ==
  IF acc.raised = "none" /\ Len(reader) = 0
  THEN [acc EXCEPT !.raised = "UnboundLocalError"] ELSE acc

\* read_spectra: the mapping, the count of failures it warns about, and the
\* exception it ends with
ReadSpectra(reader, pat) == PrintFinished(reader, ReadLoop(reader, pat, 0, NoMapping))

(***************************************************************************)
(* Specification of read_spectra: one call on one spectra file.            *)
(***************************************************************************)
SpectrumValues ==
  { Params({}, <<>>, <<>>),
    Params({"scans"}, <<"1">>, <<>>),
    Params({"scans"}, <<"-", "1">>, <<>>),
    Params({"scans"}, <<"-", "2">>, <<>>),
    Params({"scans", "title"}, <<".">>, <<".", "1", "2", ".">>),
    Params({"title"}, <<>>, <<"scan", "=", "\"", "2", "\"">>),
    Params({"title"}, <<>>, <<"scan">>),
    Params({"title"}, <<>>, <<"-", "2">>) }

RECURSIVE SeqsOfLen(_, _)
SeqsOfLen(S, n) ==
  IF n = 0 THEN {<<>>}
  ELSE {Append(q, x) : q \in SeqsOfLen(S, n - 1), x \in S}

RECURSIVE SeqsUpTo(_, _)
SeqsUpTo(S, n) ==
  IF n = 0 THEN SeqsOfLen(S, 0) ELSE SeqsOfLen(S, n) \cup SeqsUpTo(S, n - 1)

InitRead ==
  /\ pc = "call"
  /\ params = Params({}, <<>>, <<>>)
  /\ pattern \in {DefaultPattern, "("}
  /\ i = 0
  /\ scan_nr = Pass
  /\ spectra \in SeqsUpTo(SpectrumValues, MaxSpectra)
  /\ mapping = NoMapping
  /\ fs = <<>>
  /\ log = <<>>

read_spectra ==
  /\ pc = "call"
  /\ mapping' = ReadSpectra(spectra, pattern)
  /\ pc' = "done"
  /\ UNCHANGED <<params, pattern, i, scan_nr, spectra, fs, log>>

NextRead == read_spectra

SpecRead == InitRead /\ [][NextRead]_vars

\* C2: for a source of N spectra, N >= 0, read_spectra returns a mapping
\* whose keys are exactly 1..N.
C2_KeysOneToN ==
  pc = "done" =>
    /\ mapping.raised = "none"
    /\ DOMAIN mapping.result_dict = 1..Len(spectra)

\* C5: the number of spectra counted as parse failures equals the number of
\* positions k whose mapping value is -k.
C5_FailuresAreSentinels ==
  (pc = "done" /\ mapping.raised = "none") =>
    mapping.exit_code
      = Cardinality({k \in DOMAIN mapping.result_dict : mapping.result_dict[k] = 0 - k})

(***************************************************************************)
(* Tables.  A cell of the scan number column holds a number, kept in       *)
(* halves (3 is 1.5) so that int(x) has something to truncate.  A table    *)
(* file holds the rows and, when written by to_excel, the index column     *)
(* that pandas adds and reads back as "Unnamed: 0".                        *)
(***************************************************************************)
\* int(x) of a number: truncation toward zero
IntOfNumber(h) == IF h >= 0 THEN h \div 2 ELSE 0 - ((0 - h) \div 2)

NumberOfInt(n) == 2 * n

Row(scan, seqid) == [c \in {"First Scan", "Sequence"} |->
                       IF c = "First Scan" THEN scan ELSE seqid]

\* pd.read_csv / pd.read_excel of a table file
ReadTable(file) ==
  IF file.index
  THEN [r \in 1..Len(file.rows) |->
          [c \in DOMAIN file.rows[r] \cup {"Unnamed: 0"} |->
             IF c \in DOMAIN file.rows[r] THEN file.rows[r][c] ELSE r - 1]]
  ELSE file.rows

\* df.to_excel(output): the rows and the index column
ToExcel(df) == [index |-> TRUE, rows |-> df]

(***************************************************************************)
(* repair_scan_numbers                                                     *)
(***************************************************************************)
\* mapping[key] as a cell of the series
Lookup(m, key) == IF key \in DOMAIN m THEN Return(NumberOfInt(m[key])) ELSE Raise("KeyError")

\* df[col].apply(lambda x: mapping.get(int(x), x)): a missing key keeps x
RECURSIVE ApplyKeepMissing(_, _, _, _, _)
ApplyKeepMissing(df, col, m, r, series) ==
  IF r > Len(df) THEN Return(series)
  ELSE ApplyKeepMissing(df, col, m, r + 1,
         Append(series, OrElse(Try(Lookup(m, IntOfNumber(df[r][col]))),
                               Return(df[r][col])).val))

RECURSIVE Apply(_, _, _, _, _)

\* the series with the cell of row r, the rows after r still to come
ApplyNext(df, col, m, r, series, cell) ==
  IF cell.kind = "return" THEN Apply(df, col, m, r + 1, Append(series, cell.val))
  ELSE cell

\* df[col].apply(lambda x: mapping[int(x)]), row by row from row r on
Apply(df, col, m, r, series) ==
  IF r > Len(df) THEN Return(series)
  ELSE ApplyNext(df, col, m, r, series, Lookup(m, IntOfNumber(df[r][col])))

Last(seq) == seq[Len(seq)]

\* filename_data.split(".")[-1].strip()
Ext(filename_data) == Strip(Last(Split(filename_data, <<".">>)), {" "})

Repaired(raised, reads, loaded, fixed) ==
  [raised |-> raised, mgf_reads |-> reads, df |-> loaded, fixed |-> fixed,
   returned |-> raised = "none"]

\* df[colname_scannr] = series; return df
Assign(df, col, series) ==
  IF series.kind = "raise" THEN Repaired(series.exc, 1, df, <<>>)
  ELSE Repaired("none", 1, df,
         [r \in 1..Len(df) |-> [df[r] EXCEPT ![col] = series.val[r]]])

\* the lines after the table and the mapping are read
RepairWith(df, col, m) ==
  IF m.raised # "none" THEN Repaired(m.raised, 1, df, <<>>)
  ELSE Assign(df, col, Apply(df, col, m.result_dict, 1, <<>>))

\* repair_scan_numbers reading the spectra before it looks at the extension
RepairScanNumbersSpectraFirst(filename_data, colname_scannr, mgf, pat, files) ==
  IF Ext(filename_data) \notin {<<"csv">>, <<"xlsx">>}
  THEN Repaired(IF ReadSpectra(mgf, pat).raised # "none"
                THEN ReadSpectra(mgf, pat).raised ELSE "ValueError", 1, <<>>, <<>>)
  ELSE RepairWith(ReadTable(files[filename_data]), colname_scannr, ReadSpectra(mgf, pat))

RepairScanNumbers(filename_data, colname_scannr, mgf, pat, files) ==
  IF Ext(filename_data) \notin {<<"csv">>, <<"xlsx">>}
  THEN Repaired("ValueError", 0, <<>>, <<>>)
  ELSE RepairWith(ReadTable(files[filename_data]), colname_scannr, ReadSpectra(mgf, pat))

(***************************************************************************)
(* main                                                                    *)
(***************************************************************************)
\* the -o argument: absent (None) or a name
OutputArgs == {[given |-> FALSE, name |-> <<>>], [given |-> TRUE, name |-> <<"out">>]}

\* output = args.df + "_fixed.xlsx" or args.output + ".xlsx"
Output(d, o) ==
  IF ~o.given THEN d \o <<"_fixed", ".", "xlsx">> ELSE o.name \o <<".", "xlsx">>

\* main writing the table as it was loaded instead of the repaired one
WriteLoaded(d, output, fixed, files) ==
  [call |-> [d |-> d, output |-> output, raised |-> fixed.raised,
             mgf_reads |-> fixed.mgf_reads, df |-> fixed.df,
             fixed |-> fixed.fixed, returned |-> fixed.returned,
             wrote |-> fixed.returned, files_before |-> files],
   files |-> IF fixed.returned THEN SetItem(files, output, ToExcel(fixed.df))
             ELSE files]

\* fixed = repair_scan_numbers(...); fixed.to_excel(output), the second
\* reached only when the first returned
WriteFixed(d, output, fixed, files) ==
  [call |-> [d |-> d, output |-> output, raised |-> fixed.raised,
             mgf_reads |-> fixed.mgf_reads, df |-> fixed.df,
             fixed |-> fixed.fixed, returned |-> fixed.returned,
             wrote |-> fixed.returned, files_before |-> files],
   files |-> IF fixed.returned THEN SetItem(files, output, ToExcel(fixed.fixed))
             ELSE files]

\* main(["-d", d, "-m", mgf, "-o", o]): the call's record and the files after it
Main(d, o, mgf, pat, files) ==
  WriteFixed(d, Output(d, o), RepairScanNumbers(d, "First Scan", mgf, pat, files), files)

(***************************************************************************)
(* Specification of the tool: main on a table file, then main again on     *)
(* the file the first run wrote.                                           *)
(***************************************************************************)
FileNames ==
  { <<"data", ".", "csv">>, <<"data", ".", "xlsx">>, <<"data", ".", "txt">>,
    <<"data", ".", "csv", " ">>, <<"data", ".", "csv", ".", "bak">>, <<"data">> }

\* cells of the scan number column: 0.5, 1, 1.5, 2 and MaxSpectra + 1
CellValues == {1, 2, 3, 4, NumberOfInt(MaxSpectra + 1)}

Tables ==
  { [r \in 1..Len(cells) |-> Row(cells[r], r)] : cells \in SeqsUpTo(CellValues, MaxRows) }

RepairSpectrumValues ==
  { Params({"scans"}, <<"1">>, <<>>),
    Params({"scans"}, <<"2">>, <<>>),
    Params({"title"}, <<>>, <<".", "1", "2", ".">>),
    Params({"title"}, <<>>, <<"scan">>) }

InitRepair ==
  /\ pc = "call"
  /\ params = Params({}, <<>>, <<>>)
  /\ pattern = DefaultPattern
  /\ i = 0
  /\ scan_nr = Pass
  /\ spectra \in SeqsUpTo(RepairSpectrumValues, MaxSpectra)
  /\ mapping = NoMapping
  /\ \E d \in FileNames, t \in Tables :
       fs = [f \in {d} |-> [index |-> FALSE, rows |-> t]]
  /\ log = <<>>

\* the state after a call of main
Ran(run) ==
  /\ log' = Append(log, run.call)
  /\ fs' = run.files

main ==
  /\ pc = "call"
  /\ \E d \in DOMAIN fs, o \in OutputArgs :
       Ran(Main(d, o, spectra, pattern, fs))
  /\ pc' = "ran"
  /\ UNCHANGED <<params, pattern, i, scan_nr, spectra, mapping>>

main_again ==
  /\ pc = "ran"
  /\ log[1].wrote
  /\ \E o \in OutputArgs :
       Ran(Main(log[1].output, o, spectra, pattern, fs))
  /\ pc' = "reran"
  /\ UNCHANGED <<params, pattern, i, scan_nr, spectra, mapping>>

NextRepair == main \/ main_again

SpecRepair == InitRepair /\ [][NextRepair]_vars

(***************************************************************************)
(* Properties of repair_scan_numbers and main.                             *)
(***************************************************************************)
\* the text after the last "." of a path (the whole path when it has none),
\* without surrounding whitespace
TextAfterLastDot(path) ==
  Strip(SubSeq(path, Max({0} \cup {k \in 1..Len(path) : path[k] = "."}) + 1, Len(path)),
        {" "})

Supported(path) == TextAfterLastDot(path) \in {<<"csv">>, <<"xlsx">>}

\* the table a call of main was given
TableOf(call) == ReadTable(call.files_before[call.d])

\* the key a row of a table looks up
KeyOf(row) == IntOfNumber(row["First Scan"])

OrdinalsOnly(table, n) == \A r \in 1..Len(table) : KeyOf(table[r]) \in 1..n

\* the scan number column of fixed is that of table mapped through m and
\* nothing else differs
MappedBy(fixed, table, m) ==
  /\ Len(fixed) = Len(table)
  /\ \A r \in 1..Len(table) :
       /\ DOMAIN fixed[r] = DOMAIN table[r]
       /\ fixed[r]["First Scan"] = NumberOfInt(m[KeyOf(table[r])])
       /\ \A c \in DOMAIN table[r] \ {"First Scan"} : fixed[r][c] = table[r][c]

\* C1: for a table whose scan number column holds only values v with int(v)
\* in 1..N and a spectra file of N spectra, repair_scan_numbers returns the
\* table with that column mapped through read_spectra's mapping, the other
\* columns and the row order unchanged.
C1_RepairMapsColumn ==
  \A k \in 1..Len(log) :
    (Supported(log[k].d) /\ OrdinalsOnly(TableOf(log[k]), Len(spectra)))
      => /\ log[k].returned
         /\ MappedBy(log[k].fixed, TableOf(log[k]),
                     ReadSpectra(spectra, pattern).result_dict)

\* C1 for spectra files of at least one spectrum
C1_RepairMapsColumnNonEmpty ==
  \A k \in 1..Len(log) :
    (Supported(log[k].d) /\ OrdinalsOnly(TableOf(log[k]), Len(spectra))
       /\ Len(spectra) > 0)
      => /\ log[k].returned
         /\ MappedBy(log[k].fixed, TableOf(log[k]),
                     ReadSpectra(spectra, pattern).result_dict)

\* C6 as stated: a second run on an already repaired table (one with rows)
\* against the same spectra file is rejected; it never returns a table.
C6_RerunRejected ==
  (pc = "reran" /\ Len(log[1].fixed) > 0)
    => (log[2].raised # "none" /\ ~log[2].returned)

\* C6 amended: a second run on the already repaired table raises the lookup
\* error exactly when some repaired value is not an ordinal position 1..N of
\* the spectra file; when all of them are, it returns the table mapped a
\* second time.
C6_RerunRemapsOrdinals ==
  pc = "reran" =>
    IF OrdinalsOnly(log[1].fixed, Len(spectra))
    THEN /\ log[2].returned
         /\ MappedBy(log[2].fixed, TableOf(log[2]),
                     ReadSpectra(spectra, pattern).result_dict)
         /\ \A r \in 1..Len(log[1].fixed) :
              KeyOf(TableOf(log[2])[r]) = KeyOf(log[1].fixed[r])
    ELSE /\ log[2].raised = "KeyError"
         /\ ~log[2].returned
         /\ ~log[2].wrote

\* a second run that returned a table with a scan number changed again
C6_Witness ==
  /\ pc = "reran"
  /\ log[2].returned
  /\ \E r \in 1..Len(log[2].fixed) :
       log[2].fixed[r]["First Scan"] # log[1].fixed[r]["First Scan"]

\* what a call that raised leaves behind: no table, no file written
NothingReturned(k) ==
  /\ ~log[k].returned
  /\ log[k].fixed = <<>>
  /\ ~log[k].wrote
  /\ k = Len(log) => fs = log[k].files_before

\* C7: with an extension that is neither csv nor xlsx, repair_scan_numbers
\* raises the configuration error before the spectra file is read, returns
\* no table, and main writes no file.
C7_UnsupportedExtension ==
  \A k \in 1..Len(log) :
    ~Supported(log[k].d)
      => /\ log[k].raised = "ValueError"
         /\ log[k].mgf_reads = 0
         /\ NothingReturned(k)

\* an unsupported path given with a table and spectra that would repair
C7_Witness ==
  /\ pc = "ran"
  /\ ~Supported(log[1].d)
  /\ Len(spectra) > 0
  /\ Len(log[1].files_before[log[1].d].rows) > 0
  /\ OrdinalsOnly(log[1].files_before[log[1].d].rows, Len(spectra))
  /\ log[1].raised = "ValueError"

MissingKey(table, m) == \E r \in 1..Len(table) : KeyOf(table[r]) \notin DOMAIN m

====
